---- MODULE Spec2Model ----
(***************************************************************************)
(* Model of DocumentVectorStore (src/api/core/vector_store.py): the three  *)
(* in-memory maps, the three on-disk artifacts, the document files the     *)
(* store reads, and the store's operations.                                *)
(*                                                                         *)
(* Texts are sequences of one-character strings.  Paths are sequences of   *)
(* path components.  A chunk identifier f"{path}#{i}" is the pair          *)
(* <<path, i>>.  An embedding is a unit vector in the plane at a multiple  *)
(* of 60 degrees, named by that multiple, so that twice the cosine of two  *)
(* embeddings is an integer.                                               *)
(***************************************************************************)
EXTENDS Integers, Sequences, FiniteSets, TLC

(***************************************************************************)
(* Bounds of the model.  ChunkSize, Overlap and LookBack stand for the     *)
(* chunker's 1000, 200 and 100 characters, scaled down with the texts.     *)
(* MaxFaults is the number of input/output failures (a file read, a stat   *)
(* or an artifact write that raises) in one run of the store.  MaxTextLen  *)
(* is the length of the texts given to the chunker alone, MaxWindows the   *)
(* number of windows followed in one call of the chunker; MaxHashFaults    *)
(* is the number of failures in a run where only fingerprint reads fail.   *)
(***************************************************************************)
ChunkSize == 4

Overlap == 1

LookBack == 3

NumVectors == 2

MaxTopK == 2

MaxMtime == 1

MaxFaults == 1

MaxTextLen == 5

MaxWindows == 6

MaxHashFaults == 2

Vectors == 0 .. (NumVectors - 1)

Mtimes == 1 .. MaxMtime

(***************************************************************************)
(* The document files of the model.  Both have the name a.txt: one in the  *)
(* document directory, one in its docs subdirectory.  Neither ends in .md, *)
(* so add_document's markdown rendering does not apply to them.            *)
(***************************************************************************)
document_dir == <<"doc">>

PathRoot == <<"doc", "a.txt">>

PathDocs == <<"doc", "docs", "a.txt">>

PathAlias == <<"doc", "docs", "..", "a.txt">>

CanonPaths == {PathRoot, PathDocs}

RawPaths == {PathRoot, PathDocs, PathAlias}

NoPath == << >>

NoName == ""

FileNames == {"a.txt"}

TextShort == <<"a", "a">>

TextLong == <<"a", "a", ".", "a", "a">>

TextBlank == <<" ", " ", " ", " ", " ", " ">>

(* With the bounds above: one chunk, two chunks ("aa." and ".aa"), no chunk. *)
(* The contents each document file takes in the model. *)
FileTexts(path) == IF path = PathRoot THEN {TextLong, TextBlank} ELSE {TextShort}

NoFile == [exists |-> FALSE, content |-> << >>, mtime |-> 0]

(***************************************************************************)
(* Python dicts keep insertion order: a dict is a sequence of entries.     *)
(***************************************************************************)
DictKeys(d) == {d[i].key : i \in DOMAIN d}

DictHas(d, k) == \E i \in DOMAIN d : d[i].key = k

DictGet(d, k) == d[CHOOSE i \in DOMAIN d : d[i].key = k].val

DictSet(d, k, v) ==
  IF DictHas(d, k)
  THEN [i \in DOMAIN d |-> IF d[i].key = k THEN [key |-> k, val |-> v] ELSE d[i]]
  ELSE Append(d, [key |-> k, val |-> v])

(* del d[k] forgotten *)
DictDelKept(d, k) == d

DictDel(d, k) == SelectSeq(d, LAMBDA e : e.key # k)

KeyList(d) == [i \in DOMAIN d |-> d[i].key]

(* An unordered dict (the order of embeddings is never observed). *)
MapSet(m, k, v) == [x \in (DOMAIN m) \cup {k} |-> IF x = k THEN v ELSE m[x]]

EmptyMap == [x \in {} |-> 0]

(***************************************************************************)
(* _get_embedding (vector_store.py:40-66).  One call of the provider       *)
(* either returns a vector (response) or raises; when it raises, the       *)
(* fallback draws a random vector (random).  The part of an outcome that   *)
(* the call does not produce is 0.                                         *)
(***************************************************************************)
ProviderOutcomes ==
  {[raises |-> FALSE, response |-> v, random |-> 0] : v \in Vectors}
    \cup {[raises |-> TRUE, response |-> 0, random |-> v] : v \in Vectors}

(* the provider's error not caught *)
_get_embeddingNoFallback(provider) == provider.response

_get_embedding(provider) == IF provider.raises THEN provider.random ELSE provider.response

(***************************************************************************)
(* _chunk_text (vector_store.py:68-104)                                    *)
(***************************************************************************)
IsSpace(c) == c = " "

RECURSIVE LStrip(_)
LStrip(s) == IF s # << >> /\ IsSpace(Head(s)) THEN LStrip(Tail(s)) ELSE s

RECURSIVE RStrip(_)
RStrip(s) ==
  IF s # << >> /\ IsSpace(s[Len(s)]) THEN RStrip(SubSeq(s, 1, Len(s) - 1)) ELSE s

Strip(s) == RStrip(LStrip(s))

Min(a, b) == IF a < b THEN a ELSE b

Max(a, b) == IF a > b THEN a ELSE b

(* A slice bound as Python reads it: counted from the end when negative,   *)
(* clipped to 0 .. len.                                                    *)
SliceIndex(i, len) == IF i < 0 THEN Max(i + len, 0) ELSE Min(i, len)

(* text[start:end], 0-based and end-exclusive *)
Slice(text, start, end) ==
  SubSeq(text, SliceIndex(start, Len(text)) + 1, SliceIndex(end, Len(text)))

(* text.rfind(c, start, end): the highest 0-based index in text[start:end], or -1 *)
RFind(text, c, start, end) ==
  LET hits == {i \in SliceIndex(start, Len(text)) .. (SliceIndex(end, Len(text)) - 1) :
                 text[i + 1] = c}
  IN  IF hits = {} THEN -1 ELSE CHOOSE i \in hits : \A j \in hits : j <= i

(* the text of exactly chunk_size characters sent through the loop *)
ShortTextStrict(text, chunk_size) == Len(text) < chunk_size

(* line 80 *)
ShortText(text, chunk_size) == Len(text) <= chunk_size

(* lines 87-94: the end of the window that starts at start, moved back to a
   period in its last LookBack characters when the text goes on after it *)
WindowEnd(text, chunk_size, start) ==
  LET end == start + chunk_size
      sentence_end == RFind(text, ".", start, end)
  IN  IF end < Len(text) /\ sentence_end > start + chunk_size - LookBack
      THEN sentence_end + 1
      ELSE end

(* lines 96-98: the chunk of a window appended unless it is empty *)
AppendChunk(chunks, text, start, end) ==
  LET chunk == Strip(Slice(text, start, end))
  IN  IF chunk # << >> THEN Append(chunks, chunk) ELSE chunks

RECURSIVE ChunkLoop(_, _, _, _, _)
ChunkLoop(text, chunk_size, overlap, start, chunks) ==
  LET end == WindowEnd(text, chunk_size, start)
      chunks1 == AppendChunk(chunks, text, start, end)
      start1 == end - overlap
  IN  IF start1 >= Len(text)
      THEN chunks1
      ELSE ChunkLoop(text, chunk_size, overlap, start1, chunks1)

_chunk_text(text, chunk_size, overlap) ==
  IF ShortText(text, chunk_size)
  THEN <<text>>
  ELSE ChunkLoop(text, chunk_size, overlap, 0, << >>)

(***************************************************************************)
(* _get_file_hash (vector_store.py:106-113): the MD5 hex digest of the     *)
(* content, a non-empty string that differs for different contents; the    *)
(* empty string when the file cannot be read.                              *)
(***************************************************************************)
EmptyHash == << >>

Md5(content) == <<"md5">> \o content

_get_file_hash(file, readable) == IF readable THEN Md5(file.content) ELSE EmptyHash

(***************************************************************************)
(* _resolve_file_path (vector_store.py:115-155).  Path.resolve() removes   *)
(* "." and ".." components; a file exists when the document files hold it. *)
(***************************************************************************)
RECURSIVE Normalize(_, _)
Normalize(todo, done) ==
  IF todo = << >> THEN done
  ELSE IF Head(todo) = "." THEN Normalize(Tail(todo), done)
  ELSE IF Head(todo) = ".."
       THEN Normalize(Tail(todo),
                      IF done = << >> THEN done ELSE SubSeq(done, 1, Len(done) - 1))
  ELSE Normalize(Tail(todo), Append(done, Head(todo)))

PathResolve(path) == Normalize(path, << >>)

PathExists(files, path) ==
  LET p == PathResolve(path) IN p \in DOMAIN files /\ files[p].exists

PathName(path) == path[Len(path)]

Raised == [ok |-> FALSE, path |-> NoPath]

Resolved(path) == [ok |-> TRUE, path |-> path]

(* the name looked for when the path given does not exist *)
_resolve_file_pathNameFallback(files, file_path, file_name) ==
  LET resolved_path == PathResolve(file_path)
      potential_path == document_dir \o <<file_name>>
      in_docs == document_dir \o <<"docs", file_name>>
      in_documents == document_dir \o <<"documents", file_name>>
  IN  IF file_path # NoPath /\ PathExists(files, resolved_path) THEN Resolved(resolved_path)
      ELSE IF file_name = NoName THEN Raised
      ELSE IF PathExists(files, potential_path) THEN Resolved(PathResolve(potential_path))
      ELSE IF PathExists(files, in_docs) THEN Resolved(PathResolve(in_docs))
      ELSE IF PathExists(files, in_documents) THEN Resolved(PathResolve(in_documents))
      ELSE Raised

_resolve_file_path(files, file_path, file_name) ==
  IF file_path # NoPath
  THEN LET resolved_path == PathResolve(file_path)
       IN  IF ~PathExists(files, resolved_path) THEN Raised ELSE Resolved(resolved_path)
  ELSE IF file_name # NoName
  THEN LET potential_path == document_dir \o <<file_name>>
           in_docs == document_dir \o <<"docs", file_name>>
           in_documents == document_dir \o <<"documents", file_name>>
       IN  IF PathExists(files, potential_path) THEN Resolved(PathResolve(potential_path))
           ELSE IF PathExists(files, in_docs) THEN Resolved(PathResolve(in_docs))
           ELSE IF PathExists(files, in_documents) THEN Resolved(PathResolve(in_documents))
           ELSE Raised
  ELSE Raised

(***************************************************************************)
(* The artifacts under storage_dir: embeddings.npz, documents.json and     *)
(* file_metadata.json, each absent or holding what was last written.       *)
(***************************************************************************)
Absent(empty) == [state |-> "absent", data |-> empty]

Written(data) == [state |-> "ok", data |-> data]

EmptyDisk ==
  [embeddings |-> Absent(EmptyMap), documents |-> Absent(<< >>), file_metadata |-> Absent(<< >>)]

(***************************************************************************)
(* _save_data (vector_store.py:419-439).  fail = 0: every write succeeds;  *)
(* fail = k: the k-th write raises (the open fails, the artifact is left   *)
(* as it was), which ends the flush; the exception is swallowed.           *)
(***************************************************************************)
SaveRaises(embs, fail) == (fail = 1 /\ DOMAIN embs # {}) \/ fail \in {2, 3}

(* lines 423-426: embeddings.npz is written only when there are embeddings *)
SaveEmbeddings(embs, d) ==
  IF DOMAIN embs # {} THEN [d EXCEPT !.embeddings = Written(embs)] ELSE d

(* lines 429-431 *)
SaveDocuments(docs, d) == [d EXCEPT !.documents = Written(docs)]

(* lines 434-436 *)
SaveFileMetadata(meta, d) == [d EXCEPT !.file_metadata = Written(meta)]

_save_data(docs, embs, meta, d, fail) ==
  LET d1 == IF fail = 1 THEN d ELSE SaveEmbeddings(embs, d)
      d2 == IF fail = 2 THEN d1 ELSE SaveDocuments(docs, d1)
      d3 == IF fail = 3 THEN d2 ELSE SaveFileMetadata(meta, d2)
  IN  IF fail = 1 /\ DOMAIN embs # {} THEN d1
      ELSE IF fail = 2 THEN d2
      ELSE d3

(***************************************************************************)
(* _load_data (vector_store.py:441-463), run by the constructor on empty   *)
(* maps: each artifact that exists is read in full.                        *)
(***************************************************************************)
_load_data(d) ==
  [embeddings |-> IF d.embeddings.state = "ok" THEN d.embeddings.data ELSE EmptyMap,
   documents |-> IF d.documents.state = "ok" THEN d.documents.data ELSE << >>,
   file_metadata |-> IF d.file_metadata.state = "ok" THEN d.file_metadata.data ELSE << >>]

(***************************************************************************)
(* add_document (vector_store.py:157-236) as a function of the store, the  *)
(* artifacts, the document files and the call.                             *)
(***************************************************************************)
ChunkId(path, i) == <<path, i>>

OwnedIds(docs, path) == {k \in DictKeys(docs) : DictGet(docs, k).file_path = path}

(* the flag tested the wrong way round *)
SkipUnchangedWhenForced(meta, path, current_hash, force_reprocess) ==
  /\ force_reprocess
  /\ DictHas(meta, path)
  /\ DictGet(meta, path).hash = current_hash

(* lines 177-178: the unchanged-file test *)
SkipUnchanged(meta, path, current_hash, force_reprocess) ==
  /\ ~force_reprocess
  /\ DictHas(meta, path)
  /\ DictGet(meta, path).hash = current_hash

(* the old chunks left in documents *)
RemoveChunksKept(docs, path) == docs

(* lines 198-201 and 331-335: delete the chunks of the file *)
RemoveChunks(docs, path) == SelectSeq(docs, LAMBDA e : e.val.file_path # path)

(* the old embeddings left in embeddings *)
RemoveEmbeddingsKept(embs, docs, path) == embs

(* lines 202-203 and 336-337: delete the embeddings of the file's chunks *)
RemoveEmbeddings(embs, docs, path) ==
  [k \in (DOMAIN embs) \ OwnedIds(docs, path) |-> embs[k]]

ChunkData(path, i, chunk) ==
  [file_path |-> path, chunk_index |-> i, content |-> chunk, length |-> Len(chunk)]

(* lines 206-219: store each chunk and its embedding, from chunk i on *)
RECURSIVE StoreChunks(_, _, _, _, _, _)
StoreChunks(docs, embs, path, chunks, providers, i) ==
  IF i >= Len(chunks)
  THEN [documents |-> docs, embeddings |-> embs]
  ELSE StoreChunks(DictSet(docs, ChunkId(path, i), ChunkData(path, i, chunks[i + 1])),
                   MapSet(embs, ChunkId(path, i), _get_embedding(providers[i + 1])),
                   path, chunks, providers, i + 1)

(* str(st_mtime) *)
StrOf(number) == <<"str", number>>

(* lines 222-226 *)
FileMetadata(current_hash, chunks, file) ==
  [hash |-> current_hash, chunk_count |-> Len(chunks), processed_at |-> StrOf(file.mtime)]

(***************************************************************************)
(* A call of add_document: its arguments, and what the outside world does  *)
(* during the call.  hash_ok, read_ok, stat_ok: whether the read of line   *)
(* 109, the read of line 184 and the stat of line 225 succeed (the file    *)
(* the resolver found can become unreadable or vanish between them);       *)
(* providers: what the embedding provider does in the _get_embedding call  *)
(* of each chunk; fail: the write of the flush that raises, if any.        *)
(***************************************************************************)
Outcome(ret, path, current_hash, docs, embs, meta, d, io_errors) ==
  [ret |-> ret, path |-> path, hash |-> current_hash, documents |-> docs,
   embeddings |-> embs, file_metadata |-> meta, disk |-> d, io_errors |-> io_errors]

Bit(b) == IF b THEN 1 ELSE 0

AddDocument(docs, embs, meta, d, files, call) ==
  LET r == _resolve_file_path(files, call.file_path, call.file_name)
      resolved_path == r.path
      file == files[resolved_path]
      current_hash == _get_file_hash(file, call.hash_ok)
      chunks == _chunk_text(file.content, ChunkSize, Overlap)
      docs1 == RemoveChunks(docs, resolved_path)
      embs1 == RemoveEmbeddings(embs, docs, resolved_path)
      stored == StoreChunks(docs1, embs1, resolved_path, chunks, call.providers, 0)
      meta1 == DictSet(meta, resolved_path, FileMetadata(current_hash, chunks, file))
      e1 == Bit(~call.hash_ok)
  IN  IF ~r.ok
      THEN Outcome("raise", NoPath, EmptyHash, docs, embs, meta, d, 0)
      ELSE IF SkipUnchanged(meta, resolved_path, current_hash, call.force_reprocess)
      THEN Outcome("false", resolved_path, current_hash, docs, embs, meta, d, e1)
      ELSE IF ~call.read_ok
      THEN Outcome("false", resolved_path, current_hash, docs, embs, meta, d, e1 + 1)
      ELSE IF ~call.stat_ok
      THEN Outcome("false", resolved_path, current_hash,
                   stored.documents, stored.embeddings, meta, d, e1 + 1)
      ELSE Outcome("true", resolved_path, current_hash,
                   stored.documents, stored.embeddings, meta1,
                   _save_data(stored.documents, stored.embeddings, meta1, d, call.fail),
                   e1 + Bit(SaveRaises(stored.embeddings, call.fail)))

(* The references to a file that the model's calls use: (file_path, file_name). *)
FileRefs ==
  {<<PathAlias, NoName>>, <<PathDocs, NoName>>, <<NoPath, "a.txt">>, <<NoPath, NoName>>}

NumChunks(files, ref) ==
  LET r == _resolve_file_path(files, ref[1], ref[2])
  IN  IF r.ok THEN Len(_chunk_text(files[r.path].content, ChunkSize, Overlap)) ELSE 0

(* What can go wrong in a call that may fail `budget` times: whether each of  *)
(* the three file accesses succeeds, and the write of the flush that raises.   *)
(* An access the call does not get to is not listed as failing.                *)
IoOutcomes(budget) ==
  {x \in BOOLEAN \X BOOLEAN \X BOOLEAN \X (0 .. 3) :
     /\ (~x[2] => x[3])
     /\ (~(x[2] /\ x[3]) => x[4] = 0)
     /\ Bit(~x[1]) + Bit(~x[2]) + Bit(~x[3]) + Bit(x[4] # 0) <= budget}

AddCalls(files, budget) ==
  UNION {
    {[file_path |-> ref[1], file_name |-> ref[2], force_reprocess |-> force,
      hash_ok |-> io[1], read_ok |-> io[2], stat_ok |-> io[3], fail |-> io[4],
      providers |-> providers] :
       force \in BOOLEAN,
       io \in IoOutcomes(budget),
       providers \in [1 .. NumChunks(files, ref) -> ProviderOutcomes]} :
    ref \in FileRefs}

(***************************************************************************)
(* remove_document (vector_store.py:314-350) as a function of the store,   *)
(* the artifacts and the call.                                             *)
(***************************************************************************)
(* the test of line 326 left out *)
RemoveDocumentUnchecked(docs, embs, meta, d, call) ==
  LET file_path == PathResolve(call.file_path)
      docs1 == RemoveChunks(docs, file_path)
      embs1 == RemoveEmbeddings(embs, docs, file_path)
      meta1 == DictDel(meta, file_path)
  IN  Outcome("true", file_path, EmptyHash, docs1, embs1, meta1,
              _save_data(docs1, embs1, meta1, d, call.fail),
              Bit(SaveRaises(embs1, call.fail)))

RemoveDocument(docs, embs, meta, d, call) ==
  LET file_path == PathResolve(call.file_path)
      docs1 == RemoveChunks(docs, file_path)
      embs1 == RemoveEmbeddings(embs, docs, file_path)
      meta1 == DictDel(meta, file_path)
  IN  IF ~DictHas(meta, file_path)
      THEN Outcome("false", file_path, EmptyHash, docs, embs, meta, d, 0)
      ELSE Outcome("true", file_path, EmptyHash, docs1, embs1, meta1,
                   _save_data(docs1, embs1, meta1, d, call.fail),
                   Bit(SaveRaises(embs1, call.fail)))

RemoveCalls(budget) == [file_path : RawPaths, fail : IF budget > 0 THEN 0 .. 3 ELSE {0}]

(***************************************************************************)
(* search (vector_store.py:238-294).  Cos2 is twice cosine_similarity of   *)
(* two embeddings: unit vectors a*60 and b*60 degrees apart.               *)
(***************************************************************************)
Cos2(a, b) ==
  LET d == (a - b) % 6
  IN  IF d = 0 THEN 2
      ELSE IF d \in {1, 5} THEN 1
      ELSE IF d \in {2, 4} THEN -1
      ELSE -2

(* the file scope ignored *)
CandidatesUnscoped(docs, scoped, target_file_path) == KeyList(docs)

(* lines 266-269: the candidate chunk identifiers, in the order of documents *)
Candidates(docs, scoped, target_file_path) ==
  IF scoped
  THEN KeyList(SelectSeq(docs, LAMBDA e : e.val.file_path = target_file_path))
  ELSE KeyList(docs)

(* lines 275-282: one (chunk_id, similarity) pair per candidate with an embedding *)
Similarities(candidate_ids, embs, query_embedding) ==
  LET with_embedding == SelectSeq(candidate_ids, LAMBDA cid : cid \in DOMAIN embs)
  IN  [i \in DOMAIN with_embedding |->
         [chunk_id |-> with_embedding[i],
          similarity |-> Cos2(query_embedding, embs[with_embedding[i]])]]

(* a sort that puts a chunk before the earlier chunks of equal similarity *)
InsertBySimilarityUnstable(sorted, x) ==
  LET before == SelectSeq(sorted, LAMBDA y : y.similarity > x.similarity)
      after == SelectSeq(sorted, LAMBDA y : y.similarity <= x.similarity)
  IN  before \o <<x>> \o after

(* line 285: list.sort(key=similarity, reverse=True), a stable sort *)
InsertBySimilarity(sorted, x) ==
  LET before == SelectSeq(sorted, LAMBDA y : y.similarity >= x.similarity)
      after == SelectSeq(sorted, LAMBDA y : y.similarity < x.similarity)
  IN  before \o <<x>> \o after

RECURSIVE SortBySimilarity(_)
SortBySimilarity(s) ==
  IF s = << >> THEN << >>
  ELSE InsertBySimilarity(SortBySimilarity(SubSeq(s, 1, Len(s) - 1)), s[Len(s)])

(* similarities[:top_k] for top_k >= 0 *)
FirstK(s, top_k) == SubSeq(s, 1, Min(top_k, Len(s)))

(* lines 287-292: a copy of the chunk data with similarity and chunk_id added *)
ResultOf(docs, pair) ==
  LET chunk_data == DictGet(docs, pair.chunk_id)
  IN  [file_path |-> chunk_data.file_path, chunk_index |-> chunk_data.chunk_index,
       content |-> chunk_data.content, length |-> chunk_data.length,
       similarity |-> pair.similarity, chunk_id |-> pair.chunk_id]

(* the ValueError of the resolver taken for "no scope given" *)
SearchUnresolvedUnscoped(docs, embs, files, call) ==
  LET query_embedding == _get_embedding(call.provider)
      r == _resolve_file_path(files, call.file_path, call.file_name)
      scoped == (call.file_name # NoName \/ call.file_path # NoPath) /\ r.ok
      candidate_ids == Candidates(docs, scoped, r.path)
      top == FirstK(SortBySimilarity(Similarities(candidate_ids, embs, query_embedding)),
                    call.top_k)
  IN  IF DOMAIN embs = {} THEN << >>
      ELSE IF candidate_ids = << >> THEN << >>
      ELSE [i \in DOMAIN top |-> ResultOf(docs, top[i])]

Search(docs, embs, files, call) ==
  LET query_embedding == _get_embedding(call.provider)
      scoped == call.file_name # NoName \/ call.file_path # NoPath
      r == _resolve_file_path(files, call.file_path, call.file_name)
      candidate_ids == Candidates(docs, scoped, r.path)
      top == FirstK(SortBySimilarity(Similarities(candidate_ids, embs, query_embedding)),
                    call.top_k)
  IN  IF DOMAIN embs = {} THEN << >>
      ELSE IF scoped /\ ~r.ok THEN << >>
      ELSE IF candidate_ids = << >> THEN << >>
      ELSE [i \in DOMAIN top |-> ResultOf(docs, top[i])]

(* provider: what the embedding provider does in the call of line 255 *)
SearchCalls ==
  {[provider |-> p, file_path |-> ref[1], file_name |-> ref[2], top_k |-> k] :
     p \in ProviderOutcomes, ref \in FileRefs, k \in 0 .. MaxTopK}

(***************************************************************************)
(* list_files (vector_store.py:296-312)                                    *)
(***************************************************************************)
FileInfo(files, entry) ==
  [file_path |-> entry.key, file_name |-> PathName(entry.key),
   chunk_count |-> entry.val.chunk_count, processed_at |-> entry.val.processed_at,
   exists |-> PathExists(files, entry.key)]

ListFiles(meta, files) == [i \in DOMAIN meta |-> FileInfo(files, meta[i])]

(***************************************************************************)
(* The dicts that search and rerank_results assign to.  A result is a dict *)
(* object: either the dict that documents holds under a chunk identifier,  *)
(* referred to by that identifier, or a dict that no map of the store      *)
(* holds (Fresh).  An assignment to a key of a dict that documents holds   *)
(* shows in documents.                                                     *)
(***************************************************************************)
Fresh == << >>

(* the stored dict itself, not a copy *)
DictCopyAliased(ref) == ref

(* line 289: dict.copy() makes a new dict *)
DictCopy(ref) == Fresh

(* d[key] = value for every key of items, on the dict that ref refers to *)
SetItems(docs, ref, items) ==
  IF ref = Fresh THEN docs ELSE DictSet(docs, ref, items @@ DictGet(docs, ref))

RECURSIVE SetItemsOfAll(_, _, _, _)
SetItemsOfAll(docs, refs, items, n) ==
  IF n > Len(refs) THEN docs
  ELSE SetItemsOfAll(SetItems(docs, refs[n], items[n]), refs, items, n + 1)

(* the dict of each result of search *)
ResultRefs(results) == [n \in DOMAIN results |-> DictCopy(results[n].chunk_id)]

(* lines 289-291: documents after search has built its results *)
DocumentsAfterSearch(docs, results) ==
  SetItemsOfAll(docs, ResultRefs(results),
                [n \in DOMAIN results |->
                   [similarity |-> results[n].similarity, chunk_id |-> results[n].chunk_id]],
                1)

(***************************************************************************)
(* get_document_stats (vector_store.py:352-389).  The size of an artifact  *)
(* is counted in entries, one more for the container; an artifact that was *)
(* never written does not exist and counts nothing.                        *)
(***************************************************************************)
ArtifactSize(artifact) ==
  IF artifact.state = "absent" THEN 0 ELSE Cardinality(DOMAIN artifact.data) + 1

_get_storage_size(d) ==
  ArtifactSize(d.embeddings) + ArtifactSize(d.documents) + ArtifactSize(d.file_metadata)

FileStat(files, entry) ==
  [file_path |-> entry.key, chunk_count |-> entry.val.chunk_count,
   exists |-> PathExists(files, entry.key)]

GetDocumentStats(docs, meta, files, d) ==
  LET total_chunks == Len(docs)
      total_files == Len(meta)
  IN  [total_files |-> total_files,
       total_chunks |-> total_chunks,
       avg_chunks_per_file |-> IF total_files > 0
                               THEN [num |-> total_chunks, den |-> total_files]
                               ELSE [num |-> 0, den |-> 1],
       files |-> [i \in DOMAIN meta |-> FileStat(files, meta[i])],
       storage_size_mb |-> _get_storage_size(d)]

(***************************************************************************)
(* rerank_results (vector_store.py:391-417).  A score is a fraction        *)
(* num / den with den > 0.  The similarity of a result is twice the        *)
(* cosine, so 0.7 * similarity + 0.3 * keyword_score is                    *)
(* (7 * Cos2 * den + 6 * num) / (20 * den) for keyword_score num / den.    *)
(***************************************************************************)
(* str.lower() on the characters of the model *)
Lower(c) == IF c = "A" THEN "a" ELSE c

LowerText(text) == [i \in DOMAIN text |-> Lower(text[i])]

(* str.split(): the maximal runs of non-whitespace characters *)
RECURSIVE SplitLoop(_, _, _)
SplitLoop(text, word, words) ==
  LET ended == IF word = << >> THEN words ELSE words \cup {word}
  IN  IF text = << >> THEN ended
      ELSE IF IsSpace(Head(text)) THEN SplitLoop(Tail(text), << >>, ended)
      ELSE SplitLoop(Tail(text), Append(word, Head(text)), words)

(* set(text.lower().split()) *)
Words(text) == SplitLoop(LowerText(text), << >>, {})

Fraction(num, den) == [num |-> num, den |-> den]

(* line 408: the overlap over the number of query words, 0 for no query word *)
KeywordScore(query_words, content_words) ==
  IF query_words # {}
  THEN Fraction(Cardinality(query_words \cap content_words), Cardinality(query_words))
  ELSE Fraction(0, 1)

(* the two weights exchanged *)
CombinedScoreSwapped(similarity, keyword_score) ==
  Fraction(3 * similarity * keyword_score.den + 14 * keyword_score.num, 20 * keyword_score.den)

(* line 411: 0.7 * similarity + 0.3 * keyword_score *)
CombinedScore(similarity, keyword_score) ==
  Fraction(7 * similarity * keyword_score.den + 6 * keyword_score.num, 20 * keyword_score.den)

Less(a, b) == a.num * b.den < b.num * a.den

(* lines 405-413: the two scores added to a result *)
Scored(result, query_words) ==
  LET keyword_score == KeywordScore(query_words, Words(result.content))
  IN  [file_path |-> result.file_path, chunk_index |-> result.chunk_index,
       content |-> result.content, length |-> result.length,
       similarity |-> result.similarity, chunk_id |-> result.chunk_id,
       combined_score |-> CombinedScore(result.similarity, keyword_score),
       keyword_score |-> keyword_score]

(* a sort that puts a result before the earlier results of equal score *)
InsertByCombinedUnstable(sorted, x) ==
  LET before == SelectSeq(sorted, LAMBDA y : Less(x.combined_score, y.combined_score))
      after == SelectSeq(sorted, LAMBDA y : ~Less(x.combined_score, y.combined_score))
  IN  before \o <<x>> \o after

(* line 416: list.sort(key=combined_score, reverse=True), a stable sort *)
InsertByCombined(sorted, x) ==
  LET before == SelectSeq(sorted, LAMBDA y : ~Less(y.combined_score, x.combined_score))
      after == SelectSeq(sorted, LAMBDA y : Less(y.combined_score, x.combined_score))
  IN  before \o <<x>> \o after

RECURSIVE SortByCombined(_)
SortByCombined(s) ==
  IF s = << >> THEN << >>
  ELSE InsertByCombined(SortByCombined(SubSeq(s, 1, Len(s) - 1)), s[Len(s)])

Rerank(results, query) ==
  LET query_words == Words(query)
  IN  SortByCombined([i \in DOMAIN results |-> Scored(results[i], query_words)])

(* lines 412-413: documents after rerank_results has scored the results of *)
(* a search                                                                 *)
DocumentsAfterRerank(docs, results, query) ==
  LET query_words == Words(query)
  IN  SetItemsOfAll(docs, ResultRefs(results),
                    [n \in DOMAIN results |->
                       LET scored == Scored(results[n], query_words)
                       IN  [combined_score |-> scored.combined_score,
                            keyword_score |-> scored.keyword_score]],
                    1)

(* The queries of the model: "", "  ", ".aa b", "AA.  aa.", "aa". *)
RerankQueries ==
  {<< >>, <<" ", " ">>, <<".", "a", "a", " ", "b">>,
   <<"A", "A", ".", " ", " ", "a", "a", ".">>, <<"a", "a">>}

Reverse(s) == [i \in DOMAIN s |-> s[Len(s) + 1 - i]]

(***************************************************************************)
(* The state: the store's three maps (vector_store.py:33-35), the three    *)
(* artifacts, the document files, and the number of input/output failures  *)
(* that can still happen.  search, list_files and rerank_results return a  *)
(* list and change nothing.                                                *)
(*                                                                         *)
(* text .. pc are one call of _chunk_text taken step by step: its          *)
(* arguments, its locals start and chunks, the windows [start, end) it has *)
(* cut so far, and where it is: "idle" (not called), "call", "loop",       *)
(* "return".  resolution is the last call of _resolve_file_path: its       *)
(* arguments, the document files at the time, and its result.              *)
(*                                                                         *)
(* threads are callers of the one store instance (line 467) on several     *)
(* threads: for each, the call it is in, where it is in it and its locals. *)
(* The store takes no lock, so the calls interleave between any two        *)
(* accesses to the maps.                                                   *)
(***************************************************************************)
VARIABLES documents, embeddings, file_metadata, disk, fs, faults,
          text, chunk_size, overlap, start, chunks, windows, pc,
          resolution, threads

store_vars == <<documents, embeddings, file_metadata, disk, fs, faults>>

chunker_vars == <<text, chunk_size, overlap, start, chunks, windows, pc>>

vars == <<store_vars, chunker_vars, resolution, threads>>

NoResolution ==
  [file_path |-> NoPath, file_name |-> NoName, called |-> FALSE, files |-> << >>,
   result |-> Raised]

Threads == {"t1", "t2"}

(* A thread that is in no call; ret and results are what its last call      *)
(* returned or raised, calls and removes count its calls so far.            *)
Idle ==
  [op |-> "idle", pc |-> "idle", path |-> NoPath, hash |-> EmptyHash, chunks |-> << >>,
   ids |-> << >>, i |-> 0, query_embedding |-> 0, top_k |-> 0, similarities |-> << >>,
   ret |-> "none", results |-> << >>, calls |-> 0, removes |-> 0]

ThreadsIdle == threads = [t \in Threads |-> Idle]

(* The store after construction on an empty storage_dir (lines 26-38). *)
EmptyStore ==
  /\ documents = << >>
  /\ embeddings = EmptyMap
  /\ file_metadata = << >>
  /\ disk = EmptyDisk

ChunkerIdle ==
  /\ text = << >>
  /\ chunk_size = ChunkSize
  /\ overlap = Overlap
  /\ start = 0
  /\ chunks = << >>
  /\ windows = << >>
  /\ pc = "idle"

Init ==
  /\ EmptyStore
  /\ fs = [p \in CanonPaths |-> NoFile]
  /\ faults = MaxFaults
  /\ ChunkerIdle
  /\ resolution = NoResolution
  /\ ThreadsIdle

(* The document files change outside the store. *)
WriteFile(path, content, mtime) ==
  /\ fs' = [fs EXCEPT ![path] = [exists |-> TRUE, content |-> content, mtime |-> mtime]]
  /\ fs' # fs
  /\ UNCHANGED <<documents, embeddings, file_metadata, disk, faults, chunker_vars, resolution, threads>>

DeleteFile(path) ==
  /\ fs[path].exists
  /\ fs' = [fs EXCEPT ![path] = NoFile]
  /\ UNCHANGED <<documents, embeddings, file_metadata, disk, faults, chunker_vars, resolution, threads>>

(* A call fails no more often than failures can still happen. *)
Allowed(out) == out.io_errors <= faults

Added(call) == AddDocument(documents, embeddings, file_metadata, disk, fs, call)

Removed(call) == RemoveDocument(documents, embeddings, file_metadata, disk, call)

Found(call) == Search(documents, embeddings, fs, call)

Listed == ListFiles(file_metadata, fs)

add_document(call) ==
  LET out == Added(call)
  IN  /\ Allowed(out)
      /\ documents' = out.documents
      /\ embeddings' = out.embeddings
      /\ file_metadata' = out.file_metadata
      /\ disk' = out.disk
      /\ faults' = faults - out.io_errors
      /\ UNCHANGED <<fs, chunker_vars, resolution, threads>>

remove_document(call) ==
  LET out == Removed(call)
  IN  /\ Allowed(out)
      /\ documents' = out.documents
      /\ embeddings' = out.embeddings
      /\ file_metadata' = out.file_metadata
      /\ disk' = out.disk
      /\ faults' = faults - out.io_errors
      /\ UNCHANGED <<fs, chunker_vars, resolution, threads>>

(* search returns Found(call); it assigns nothing in the store (lines 238-294) *)
search(call) == UNCHANGED vars

(* list_files returns Listed; it assigns nothing in the store (lines 296-312) *)
list_files == UNCHANGED vars

Stats == GetDocumentStats(documents, file_metadata, fs, disk)

(* get_document_stats returns Stats; it assigns nothing in the store (lines
   352-377) *)
get_document_stats == UNCHANGED vars

Reranked(call, query) == Rerank(Found(call), query)

(* rerank_results on the results of a search returns Reranked(call, query); it
   assigns nothing in the store (lines 391-417) *)
rerank_results(call, query) == UNCHANGED vars

Next ==
  \/ \E path \in CanonPaths, mtime \in Mtimes : \E content \in FileTexts(path) :
       WriteFile(path, content, mtime)
  \/ \E path \in CanonPaths : DeleteFile(path)
  \/ \E call \in AddCalls(fs, faults) : add_document(call)
  \/ \E call \in RemoveCalls(faults) : remove_document(call)
  \/ \E call \in SearchCalls : search(call)
  \/ list_files
  \/ get_document_stats
  \/ \E call \in SearchCalls, query \in RerankQueries : rerank_results(call, query)

Spec == Init /\ [][Next]_vars

(***************************************************************************)
(* _chunk_text alone, on every text of up to MaxTextLen characters over    *)
(* ChunkAlphabet, with every chunk_size up to ChunkSize and every overlap  *)
(* below chunk_size, one loop iteration a step.                            *)
(***************************************************************************)
ChunkAlphabet == {"a", ".", " "}

ChunkTexts == UNION {[1 .. n -> ChunkAlphabet] : n \in 0 .. MaxTextLen}

ChunkInit ==
  /\ EmptyStore
  /\ fs = [p \in CanonPaths |-> NoFile]
  /\ faults = 0
  /\ resolution = NoResolution
  /\ ThreadsIdle
  /\ text \in ChunkTexts
  /\ chunk_size \in 1 .. ChunkSize
  /\ overlap \in 0 .. (chunk_size - 1)
  /\ start = 0
  /\ chunks = << >>
  /\ windows = << >>
  /\ pc = "call"

(* lines 80-84 *)
chunk_text_call ==
  /\ pc = "call"
  /\ IF ShortText(text, chunk_size)
     THEN chunks' = <<text>> /\ pc' = "return"
     ELSE chunks' = << >> /\ pc' = "loop"
  /\ start' = 0
  /\ UNCHANGED <<text, chunk_size, overlap, windows, store_vars, resolution, threads>>

(* lines 86-102: one iteration of the loop *)
chunk_text_loop ==
  LET end == WindowEnd(text, chunk_size, start)
  IN  /\ pc = "loop"
      /\ Len(windows) < MaxWindows
      /\ chunks' = AppendChunk(chunks, text, start, end)
      /\ start' = end - overlap
      /\ windows' = Append(windows, [start |-> start, end |-> end,
                                     moved_back |-> end # start + chunk_size])
      /\ pc' = IF end - overlap >= Len(text) THEN "return" ELSE "loop"
      /\ UNCHANGED <<text, chunk_size, overlap, store_vars, resolution, threads>>

ChunkNext == chunk_text_call \/ chunk_text_loop

ChunkSpec == ChunkInit /\ [][ChunkNext]_vars

(***************************************************************************)
(* _resolve_file_path alone: a.txt is or is not in the document directory, *)
(* in its docs and in its documents subdirectory; b.txt is nowhere.  The   *)
(* files come and go between the calls.                                    *)
(***************************************************************************)
PathDocuments == <<"doc", "documents", "a.txt">>

PathMissing == <<"doc", "b.txt">>

ResolvePaths == {PathRoot, PathDocs, PathDocuments}

SomeFile == [exists |-> TRUE, content |-> TextShort, mtime |-> 1]

ResolveInit ==
  /\ EmptyStore
  /\ fs = [p \in ResolvePaths |-> NoFile]
  /\ faults = 0
  /\ ChunkerIdle
  /\ resolution = NoResolution
  /\ ThreadsIdle

CreateFile(path) ==
  /\ ~fs[path].exists
  /\ fs' = [fs EXCEPT ![path] = SomeFile]
  /\ UNCHANGED <<documents, embeddings, file_metadata, disk, faults, chunker_vars, resolution, threads>>

resolve_file_path(file_path, file_name) ==
  /\ resolution' = [file_path |-> file_path, file_name |-> file_name, called |-> TRUE,
                    files |-> fs,
                    result |-> _resolve_file_path(fs, file_path, file_name)]
  /\ UNCHANGED <<store_vars, chunker_vars, threads>>

ResolveNext ==
  \/ \E path \in ResolvePaths : CreateFile(path)
  \/ \E path \in ResolvePaths : DeleteFile(path)
  \/ \E file_path \in {NoPath, PathRoot, PathDocs, PathDocuments, PathAlias, PathMissing},
        file_name \in {NoName, "a.txt", "b.txt"} :
       resolve_file_path(file_path, file_name)

ResolveSpec == ResolveInit /\ [][ResolveNext]_vars

(***************************************************************************)
(* The store in a run where the only failures are reads of a file for its  *)
(* fingerprint (line 109), MaxHashFaults of them.                          *)
(***************************************************************************)
FingerprintInit ==
  /\ EmptyStore
  /\ fs = [p \in CanonPaths |-> NoFile]
  /\ faults = MaxHashFaults
  /\ ChunkerIdle
  /\ resolution = NoResolution
  /\ ThreadsIdle

OnlyHashFails(call) == call.read_ok /\ call.stat_ok /\ call.fail = 0

FingerprintNext ==
  \/ \E path \in CanonPaths, mtime \in Mtimes : \E content \in FileTexts(path) :
       WriteFile(path, content, mtime)
  \/ \E path \in CanonPaths : DeleteFile(path)
  \/ \E call \in {c \in AddCalls(fs, faults) : OnlyHashFails(c)} : add_document(call)
  \/ \E call \in RemoveCalls(0) : remove_document(call)

FingerprintSpec == FingerprintInit /\ [][FingerprintNext]_vars

(***************************************************************************)
(* The store called from several threads, for the one file a.txt of the    *)
(* document directory, which is rewritten between and during the calls.    *)
(* A step is one access to a map of the store (the interpreter runs one    *)
(* dict operation at a time); a list comprehension over a map, the test    *)
(* and deletion of lines 202-203 and the three writes of the flush are     *)
(* taken as one step each.  No input or output fails.  An exception inside *)
(* the try of add_document and remove_document ends the call with False;   *)
(* search catches nothing.                                                 *)
(***************************************************************************)
MaxCalls == 2

ThreadTexts == {TextShort, TextLong}

ThreadProvider == [raises |-> FALSE, response |-> 0, random |-> 0]

At(t, op, label) == threads[t].op = op /\ threads[t].pc = label

Goto(t, local) == threads' = [threads EXCEPT ![t] = local]

(* the call returns or raises: the thread is in no call any more *)
Return(t, ret, results) ==
  Goto(t, [Idle EXCEPT !.ret = ret, !.results = results,
                       !.calls = threads[t].calls, !.removes = threads[t].removes])

(* lines 173-195: resolve, fingerprint, unchanged-file test, read, chunk *)
add_call(t, force_reprocess) ==
  LET r == _resolve_file_path(fs, PathAlias, NoName)
      resolved_path == r.path
      current_hash == _get_file_hash(fs[resolved_path], TRUE)
      called == [threads EXCEPT ![t].calls = @ + 1]
  IN  /\ At(t, "idle", "idle")
      /\ threads[t].calls < MaxCalls
      /\ IF ~r.ok
         THEN threads' = [called EXCEPT ![t].ret = "ValueError", ![t].results = << >>]
         ELSE IF SkipUnchanged(file_metadata, resolved_path, current_hash, force_reprocess)
         THEN threads' = [called EXCEPT ![t].ret = "false", ![t].results = << >>]
         ELSE threads' = [called EXCEPT ![t].op = "add_document",
                                        ![t].pc = "old_chunk_ids",
                                        ![t].path = resolved_path,
                                        ![t].hash = current_hash,
                                        ![t].chunks = _chunk_text(fs[resolved_path].content,
                                                                  ChunkSize, Overlap),
                                        ![t].ret = "none", ![t].results = << >>]
      /\ UNCHANGED <<store_vars, chunker_vars, resolution>>

(* where add_document goes on after the deletions *)
AfterDeletions(local) == IF local.chunks = << >> THEN "file_metadata" ELSE "documents"

(* lines 198-199 *)
add_old_chunk_ids(t) ==
  LET old_chunk_ids == Candidates(documents, TRUE, threads[t].path)
  IN  /\ At(t, "add_document", "old_chunk_ids")
      /\ Goto(t, [threads[t] EXCEPT !.ids = old_chunk_ids,
                                    !.pc = IF old_chunk_ids = << >>
                                           THEN AfterDeletions(threads[t])
                                           ELSE "del_documents"])
      /\ UNCHANGED <<store_vars, chunker_vars, resolution>>

(* lines 201 and 334: del self.documents[cid], a KeyError when cid is not there *)
DelDocument(t) ==
  LET cid == Head(threads[t].ids)
  IN  /\ IF DictHas(documents, cid)
         THEN /\ documents' = DictDel(documents, cid)
              /\ Goto(t, [threads[t] EXCEPT !.pc = "del_embeddings"])
         ELSE /\ UNCHANGED documents
              /\ Return(t, "false", << >>)
      /\ UNCHANGED <<embeddings, file_metadata, disk, fs, faults, chunker_vars, resolution>>

(* lines 202-203 and 336-337 *)
DelEmbedding(t, after) ==
  LET cid == Head(threads[t].ids)
      rest == Tail(threads[t].ids)
  IN  /\ embeddings' = [k \in (DOMAIN embeddings) \ {cid} |-> embeddings[k]]
      /\ Goto(t, [threads[t] EXCEPT !.ids = rest,
                                    !.pc = IF rest = << >> THEN after ELSE "del_documents"])
      /\ UNCHANGED <<documents, file_metadata, disk, fs, faults, chunker_vars, resolution>>

add_del_document(t) == At(t, "add_document", "del_documents") /\ DelDocument(t)

add_del_embedding(t) ==
  At(t, "add_document", "del_embeddings") /\ DelEmbedding(t, AfterDeletions(threads[t]))

(* lines 207-218: chunk i into documents *)
add_store_document(t) ==
  LET local == threads[t]
      chunk_id == ChunkId(local.path, local.i)
  IN  /\ At(t, "add_document", "documents")
      /\ documents' = DictSet(documents, chunk_id,
                              ChunkData(local.path, local.i, local.chunks[local.i + 1]))
      /\ Goto(t, [local EXCEPT !.pc = "embeddings"])
      /\ UNCHANGED <<embeddings, file_metadata, disk, fs, faults, chunker_vars, resolution>>

(* line 219: the embedding of chunk i into embeddings *)
add_store_embedding(t) ==
  LET local == threads[t]
      chunk_id == ChunkId(local.path, local.i)
  IN  /\ At(t, "add_document", "embeddings")
      /\ embeddings' = MapSet(embeddings, chunk_id, _get_embedding(ThreadProvider))
      /\ Goto(t, [local EXCEPT !.i = @ + 1,
                               !.pc = IF local.i + 1 < Len(local.chunks)
                                      THEN "documents" ELSE "file_metadata"])
      /\ UNCHANGED <<documents, file_metadata, disk, fs, faults, chunker_vars, resolution>>

(* lines 222-226 *)
add_file_metadata(t) ==
  LET local == threads[t]
  IN  /\ At(t, "add_document", "file_metadata")
      /\ file_metadata' = DictSet(file_metadata, local.path,
                                  FileMetadata(local.hash, local.chunks, fs[local.path]))
      /\ Goto(t, [local EXCEPT !.pc = "save"])
      /\ UNCHANGED <<documents, embeddings, disk, fs, faults, chunker_vars, resolution>>

(* lines 229 and 343, then return True *)
SaveAndReturn(t) ==
  /\ disk' = _save_data(documents, embeddings, file_metadata, disk, 0)
  /\ Return(t, "true", << >>)
  /\ UNCHANGED <<documents, embeddings, file_metadata, fs, faults, chunker_vars, resolution>>

add_save(t) == At(t, "add_document", "save") /\ SaveAndReturn(t)

(* lines 324-327 *)
remove_call(t) ==
  LET file_path == PathResolve(PathAlias)
      called == [threads EXCEPT ![t].calls = @ + 1, ![t].removes = @ + 1]
  IN  /\ At(t, "idle", "idle")
      /\ threads[t].calls < MaxCalls
      /\ IF ~DictHas(file_metadata, file_path)
         THEN threads' = [called EXCEPT ![t].ret = "false", ![t].results = << >>]
         ELSE threads' = [called EXCEPT ![t].op = "remove_document",
                                        ![t].pc = "chunk_ids_to_remove",
                                        ![t].path = file_path,
                                        ![t].ret = "none", ![t].results = << >>]
      /\ UNCHANGED <<store_vars, chunker_vars, resolution>>

(* lines 331-332 *)
remove_chunk_ids(t) ==
  LET chunk_ids_to_remove == Candidates(documents, TRUE, threads[t].path)
  IN  /\ At(t, "remove_document", "chunk_ids_to_remove")
      /\ Goto(t, [threads[t] EXCEPT !.ids = chunk_ids_to_remove,
                                    !.pc = IF chunk_ids_to_remove = << >>
                                           THEN "file_metadata" ELSE "del_documents"])
      /\ UNCHANGED <<store_vars, chunker_vars, resolution>>

remove_del_document(t) == At(t, "remove_document", "del_documents") /\ DelDocument(t)

remove_del_embedding(t) ==
  At(t, "remove_document", "del_embeddings") /\ DelEmbedding(t, "file_metadata")

(* line 340: del self.file_metadata[file_path], a KeyError when it is not there *)
remove_file_metadata(t) ==
  LET local == threads[t]
  IN  /\ At(t, "remove_document", "file_metadata")
      /\ IF DictHas(file_metadata, local.path)
         THEN /\ file_metadata' = DictDel(file_metadata, local.path)
              /\ Goto(t, [local EXCEPT !.pc = "save"])
         ELSE /\ UNCHANGED file_metadata
              /\ Return(t, "false", << >>)
      /\ UNCHANGED <<documents, embeddings, disk, fs, faults, chunker_vars, resolution>>

remove_save(t) == At(t, "remove_document", "save") /\ SaveAndReturn(t)

(* lines 251-272: the emptiness test, the query embedding, the scope and the *)
(* candidate chunk identifiers                                               *)
search_call(t, call) ==
  LET scoped == call.file_name # NoName \/ call.file_path # NoPath
      r == _resolve_file_path(fs, call.file_path, call.file_name)
      candidate_ids == Candidates(documents, scoped, r.path)
      called == [threads EXCEPT ![t].calls = @ + 1]
  IN  /\ At(t, "idle", "idle")
      /\ threads[t].calls < MaxCalls
      /\ IF \/ DOMAIN embeddings = {}
            \/ scoped /\ ~r.ok
            \/ candidate_ids = << >>
         THEN threads' = [called EXCEPT ![t].ret = "list", ![t].results = << >>]
         ELSE threads' = [called EXCEPT ![t].op = "search",
                                        ![t].pc = "similarities",
                                        ![t].ids = candidate_ids,
                                        ![t].query_embedding = _get_embedding(call.provider),
                                        ![t].top_k = call.top_k,
                                        ![t].ret = "none", ![t].results = << >>]
      /\ UNCHANGED <<store_vars, chunker_vars, resolution>>

(* lines 275-285 *)
search_similarities(t) ==
  LET local == threads[t]
      similarities == SortBySimilarity(Similarities(local.ids, embeddings,
                                                    local.query_embedding))
  IN  /\ At(t, "search", "similarities")
      /\ Goto(t, [local EXCEPT !.similarities = similarities, !.pc = "results"])
      /\ UNCHANGED <<store_vars, chunker_vars, resolution>>

(* lines 287-294: self.documents[chunk_id] is a KeyError when chunk_id is not *)
(* in documents, and search does not catch it                                *)
search_results(t) ==
  LET local == threads[t]
      top == FirstK(local.similarities, local.top_k)
  IN  /\ At(t, "search", "results")
      /\ IF \A n \in DOMAIN top : DictHas(documents, top[n].chunk_id)
         THEN Return(t, "list", [n \in DOMAIN top |-> ResultOf(documents, top[n])])
         ELSE Return(t, "KeyError", << >>)
      /\ UNCHANGED <<store_vars, chunker_vars, resolution>>

ThreadSearchCalls ==
  [provider : {ThreadProvider}, file_path : {NoPath, PathAlias}, file_name : {NoName},
   top_k : {MaxTopK}]

ThreadInit ==
  /\ EmptyStore
  /\ fs = [p \in CanonPaths |-> NoFile]
  /\ faults = 0
  /\ ChunkerIdle
  /\ resolution = NoResolution
  /\ ThreadsIdle

ThreadNext ==
  \/ \E content \in ThreadTexts : WriteFile(PathRoot, content, MaxMtime)
  \/ \E t \in Threads, force_reprocess \in BOOLEAN : add_call(t, force_reprocess)
  \/ \E t \in Threads : add_old_chunk_ids(t)
  \/ \E t \in Threads : add_del_document(t)
  \/ \E t \in Threads : add_del_embedding(t)
  \/ \E t \in Threads : add_store_document(t)
  \/ \E t \in Threads : add_store_embedding(t)
  \/ \E t \in Threads : add_file_metadata(t)
  \/ \E t \in Threads : add_save(t)
  \/ \E t \in Threads : remove_call(t)
  \/ \E t \in Threads : remove_chunk_ids(t)
  \/ \E t \in Threads : remove_del_document(t)
  \/ \E t \in Threads : remove_del_embedding(t)
  \/ \E t \in Threads : remove_file_metadata(t)
  \/ \E t \in Threads : remove_save(t)
  \/ \E t \in Threads, call \in ThreadSearchCalls : search_call(t, call)
  \/ \E t \in Threads : search_similarities(t)
  \/ \E t \in Threads : search_results(t)

ThreadSpec == ThreadInit /\ [][ThreadNext]_vars

(***************************************************************************)
(* The store with the calls that only read it taken by their assignments:  *)
(* search and rerank_results assign to keys of the result dicts (lines     *)
(* 290-291 and 412-413), and documents is what these assignments make of   *)
(* it; list_files and get_document_stats assign to no dict but the ones    *)
(* they create (lines 305-311 and 365-369).  None of the four calls        *)
(* _save_data.  No input or output fails.                                  *)
(***************************************************************************)
ReadInit ==
  /\ EmptyStore
  /\ fs = [p \in CanonPaths |-> NoFile]
  /\ faults = 0
  /\ ChunkerIdle
  /\ resolution = NoResolution
  /\ ThreadsIdle

search_build(call) ==
  /\ documents' = DocumentsAfterSearch(documents, Found(call))
  /\ UNCHANGED <<embeddings, file_metadata, disk, fs, faults, chunker_vars, resolution,
                 threads>>

rerank_score(call, query) ==
  /\ documents' = DocumentsAfterRerank(DocumentsAfterSearch(documents, Found(call)),
                                       Found(call), query)
  /\ UNCHANGED <<embeddings, file_metadata, disk, fs, faults, chunker_vars, resolution,
                 threads>>

ReadNext ==
  \/ \E path \in CanonPaths, mtime \in Mtimes : \E content \in FileTexts(path) :
       WriteFile(path, content, mtime)
  \/ \E path \in CanonPaths : DeleteFile(path)
  \/ \E call \in AddCalls(fs, 0) : add_document(call)
  \/ \E call \in RemoveCalls(0) : remove_document(call)
  \/ \E call \in SearchCalls : search_build(call)
  \/ \E call \in SearchCalls, query \in RerankQueries : rerank_score(call, query)
  \/ list_files
  \/ get_document_stats

ReadSpec == ReadInit /\ [][ReadNext]_vars

(***************************************************************************)
(* What the properties are stated with: the calls that can happen next and *)
(* the chunks, embeddings and metadata of a path read off the maps.        *)
(***************************************************************************)
Adds == AddCalls(fs, faults)

Removes == RemoveCalls(faults)

ChunksOf(docs, path) == SelectSeq(docs, LAMBDA e : e.val.file_path = path \/ e.key[1] = path)

ChunksNotOf(docs, path) ==
  SelectSeq(docs, LAMBDA e : ~(e.val.file_path = path \/ e.key[1] = path))

EmbeddingsOf(embs, path) == {k \in DOMAIN embs : k[1] = path}

EmbeddingsNotOf(embs, path) == [k \in {x \in DOMAIN embs : x[1] # path} |-> embs[k]]

MetadataNotOf(meta, path) == SelectSeq(meta, LAMBDA e : e.key # path)

Tracked(meta, path) == \E i \in DOMAIN meta : meta[i].key = path

MetadataOf(meta, path) == meta[CHOOSE i \in DOMAIN meta : meta[i].key = path].val

SameStore(out) ==
  /\ out.documents = documents
  /\ out.embeddings = embeddings
  /\ out.file_metadata = file_metadata

(* C1: in one process started on an empty store, after any add_document and
   remove_document calls, with any embeddings, the chunk-metadata map and the
   embedding map have the same keys. *)
C1_SameKeys == DictKeys(documents) = DOMAIN embeddings

(* A file was ingested and later removed or emptied, another one is still held. *)
C1_Witness ==
  /\ disk.embeddings.state = "ok"
  /\ \E k \in DOMAIN disk.embeddings.data : k \notin DOMAIN embeddings
  /\ DOMAIN embeddings # {}
  /\ DictKeys(documents) # {}

(* C2: a second add_document with force_reprocess = false on a file whose
   content has the recorded fingerprint returns false and leaves the three
   maps and the three artifacts as they were. *)
C2_Unchanged(call) ==
  LET r == _resolve_file_path(fs, call.file_path, call.file_name)
  IN  /\ r.ok
      /\ ~call.force_reprocess
      /\ call.hash_ok
      /\ Tracked(file_metadata, r.path)
      /\ MetadataOf(file_metadata, r.path).hash = Md5(fs[r.path].content)

C2_SkipIsNoOp ==
  \A call \in Adds :
    C2_Unchanged(call) =>
      /\ Added(call).ret = "false"
      /\ SameStore(Added(call))
      /\ Added(call).disk = disk

(* The unchanged file holds chunks and the artifacts are written. *)
C2_Witness ==
  \E call \in Adds :
    /\ C2_Unchanged(call)
    /\ ChunksOf(documents, Added(call).path) # << >>
    /\ disk.documents.state = "ok"
    /\ Added(call).ret = "false"

(* C3: whenever add_document returns true for a path, the path owns exactly
   the chunks of the content read, path#0 .. path#(n-1), each with an
   embedding; nothing of an earlier ingestion of the path is left; the chunks,
   embeddings and metadata of other paths are as before; file_metadata[path]
   holds the fingerprint the call computed and chunk_count n. *)
C3_Replaced(call) ==
  LET out == Added(call)
      path == out.path
      expected == _chunk_text(fs[path].content, ChunkSize, Overlap)
      n == Len(expected)
      owned == ChunksOf(out.documents, path)
  IN  /\ Len(owned) = n
      /\ \A i \in 1 .. n :
           /\ owned[i].key = <<path, i - 1>>
           /\ owned[i].val = [file_path |-> path, chunk_index |-> i - 1,
                              content |-> expected[i], length |-> Len(expected[i])]
      /\ EmbeddingsOf(out.embeddings, path) = {<<path, i>> : i \in 0 .. (n - 1)}
      /\ \A i \in 1 .. n : out.embeddings[<<path, i - 1>>] = _get_embedding(call.providers[i])
      /\ ChunksNotOf(out.documents, path) = ChunksNotOf(documents, path)
      /\ EmbeddingsNotOf(out.embeddings, path) = EmbeddingsNotOf(embeddings, path)
      /\ MetadataNotOf(out.file_metadata, path) = MetadataNotOf(file_metadata, path)
      /\ Tracked(out.file_metadata, path)
      /\ MetadataOf(out.file_metadata, path).hash =
           (IF call.hash_ok THEN Md5(fs[path].content) ELSE EmptyHash)
      /\ MetadataOf(out.file_metadata, path).chunk_count = n

C3_FullReplacement == \A call \in Adds : Added(call).ret = "true" => C3_Replaced(call)

(* A changed file is re-ingested into fewer chunks while another file is held. *)
C3_Witness ==
  \E call \in Adds :
    LET path == Added(call).path
    IN  /\ Added(call).ret = "true"
        /\ Tracked(file_metadata, path)
        /\ MetadataOf(file_metadata, path).hash # Added(call).hash
        /\ Len(ChunksOf(documents, path)) > Len(ChunksOf(Added(call).documents, path))
        /\ ChunksNotOf(documents, path) # << >>

(* C4: remove_document on a path with a file-metadata entry returns true and
   leaves no chunk, no embedding and no file-metadata entry of the path;
   list_files does not list it; the entries of other paths are as before;
   whether or not the file still exists. *)
C4_Gone(call) ==
  LET out == Removed(call)
      path == PathResolve(call.file_path)
      listed == ListFiles(out.file_metadata, fs)
  IN  /\ out.ret = "true"
      /\ ChunksOf(out.documents, path) = << >>
      /\ EmbeddingsOf(out.embeddings, path) = {}
      /\ ~Tracked(out.file_metadata, path)
      /\ \A i \in DOMAIN listed : listed[i].file_path # path
      /\ ChunksNotOf(out.documents, path) = ChunksNotOf(documents, path)
      /\ EmbeddingsNotOf(out.embeddings, path) = EmbeddingsNotOf(embeddings, path)
      /\ MetadataNotOf(out.file_metadata, path) = MetadataNotOf(file_metadata, path)

C5_RemoveUntracked ==
  \A call \in Removes :
    ~Tracked(file_metadata, PathResolve(call.file_path)) =>
      /\ Removed(call).ret = "false"
      /\ SameStore(Removed(call))
      /\ Removed(call).disk = disk

(* An untracked path is removed from a store that holds another file. *)
C5_Witness ==
  \E call \in Removes :
    /\ ~Tracked(file_metadata, PathResolve(call.file_path))
    /\ file_metadata # << >>
    /\ documents # << >>
    /\ disk.file_metadata.state = "ok"
    /\ Removed(call).ret = "false"

(* C6: after an add_document or remove_document that returns true and whose
   flush raises nothing, a store started from the three artifacts holds the
   same three maps as the store in memory. *)
Restarted(out) == _load_data(out.disk)

InMemory(out) ==
  [embeddings |-> out.embeddings, documents |-> out.documents,
   file_metadata |-> out.file_metadata]

C6_RestartAgrees ==
  /\ \A call \in Adds :
       LET out == Added(call)
       IN  out.ret = "true" /\ ~SaveRaises(out.embeddings, call.fail) =>
             Restarted(out) = InMemory(out)
  /\ \A call \in Removes :
       LET out == Removed(call)
       IN  out.ret = "true" /\ ~SaveRaises(out.embeddings, call.fail) =>
             Restarted(out) = InMemory(out)

(* C7: every chunk in documents and every entry in embeddings is owned by a
   path that has a file_metadata entry. *)
C7_ChunksHaveMetadata ==
  /\ \A i \in DOMAIN documents : Tracked(file_metadata, documents[i].val.file_path)
  /\ \A k \in DOMAIN embeddings : Tracked(file_metadata, k[1])

(* C8: add_document returns false exactly when the stored fingerprint equals
   the current one and force_reprocess is false, true exactly otherwise, and
   whenever it returns false the three maps are as before the call. *)
C8_Skipped(call) ==
  LET path == Added(call).path
  IN  /\ ~call.force_reprocess
      /\ Tracked(file_metadata, path)
      /\ MetadataOf(file_metadata, path).hash = Added(call).hash

C8_ReturnValue ==
  \A call \in Adds :
    Added(call).ret # "raise" =>
      /\ Added(call).ret = "false" <=> C8_Skipped(call)
      /\ Added(call).ret = "true" <=> ~C8_Skipped(call)
      /\ Added(call).ret = "false" => SameStore(Added(call))

(***************************************************************************)
(* The candidates of a search read off the maps: the chunks of documents,  *)
(* in their order, that are in the scope and have an embedding; none when  *)
(* the scope does not resolve.                                             *)
(***************************************************************************)
Scoped(call) == call.file_name # NoName \/ call.file_path # NoPath

ScopeOf(call) == _resolve_file_path(fs, call.file_path, call.file_name)

InScope(call) ==
  IF Scoped(call) /\ ~ScopeOf(call).ok
  THEN << >>
  ELSE SelectSeq(documents,
                 LAMBDA e : /\ e.key \in DOMAIN embeddings
                            /\ (Scoped(call) => e.val.file_path = ScopeOf(call).path))

Position(chunk_id) == CHOOSE i \in DOMAIN documents : documents[i].key = chunk_id

(* C9: search returns min(top_k, number of candidates) results, each a
   candidate with its similarity to the query, ordered by non-increasing
   similarity, chunks of equal similarity in their order in documents, and no
   candidate left out is more similar than a returned one. *)
C9_Ranking(call) ==
  LET results == Found(call)
      in_scope == InScope(call)
      ids == {in_scope[i].key : i \in DOMAIN in_scope}
      returned == {results[i].chunk_id : i \in DOMAIN results}
      sim(k) == Cos2(_get_embedding(call.provider), embeddings[k])
  IN  /\ Len(results) = Min(call.top_k, Len(in_scope))
      /\ \A i \in DOMAIN results :
           /\ results[i].chunk_id \in ids
           /\ results[i].similarity = sim(results[i].chunk_id)
      /\ \A i, j \in DOMAIN results :
           i < j =>
             /\ results[i].chunk_id # results[j].chunk_id
             /\ results[i].similarity >= results[j].similarity
             /\ results[i].similarity = results[j].similarity =>
                  Position(results[i].chunk_id) < Position(results[j].chunk_id)
      /\ \A k \in ids \ returned : \A i \in DOMAIN results : sim(k) <= results[i].similarity

C9_SearchRanks == \A call \in SearchCalls : C9_Ranking(call)

(* Three candidates, two returned with equal similarity, the third less similar. *)
C9_Witness ==
  \E call \in SearchCalls :
    /\ Len(InScope(call)) = 3
    /\ Len(Found(call)) = 2
    /\ Found(call)[1].similarity = Found(call)[2].similarity
    /\ \E i \in 1 .. 3 :
         Cos2(_get_embedding(call.provider), embeddings[InScope(call)[i].key])
           < Found(call)[2].similarity

(* C10: a search with a file scope that resolves to a path returns only
   chunks whose file_path is that path. *)
C10_ScopedSearch ==
  \A call \in SearchCalls :
    Scoped(call) /\ ScopeOf(call).ok =>
      \A i \in DOMAIN Found(call) : Found(call)[i].file_path = ScopeOf(call).path

(* A scoped search returns chunks while the store holds chunks of another file. *)
C10_Witness ==
  \E call \in SearchCalls :
    /\ Scoped(call)
    /\ ScopeOf(call).ok
    /\ Found(call) # << >>
    /\ \E i \in DOMAIN documents :
         /\ documents[i].val.file_path # ScopeOf(call).path
         /\ documents[i].key \in DOMAIN embeddings

(* C11: a failure of the embedding provider makes neither add_document nor
   search fail.  An add_document call in which the provider raises for some
   chunk raises nothing, returns true unless it is skipped or a file access
   fails, and every chunk it stores has an embedding, the fallback's random
   vector where the provider raised.  A search call in which the provider
   raises returns the list ranked by similarity to the fallback's vector. *)
ProviderFails(call) == \E i \in DOMAIN call.providers : call.providers[i].raises

C11_AddSurvives(call) ==
  LET out == Added(call)
      path == out.path
  IN  /\ out.ret # "raise"
      /\ (call.read_ok /\ call.stat_ok /\ ~C8_Skipped(call)) => out.ret = "true"
      /\ out.ret = "true" =>
           /\ Len(ChunksOf(out.documents, path)) = Len(call.providers)
           /\ \A i \in DOMAIN call.providers :
                /\ <<path, i - 1>> \in DictKeys(out.documents)
                /\ <<path, i - 1>> \in DOMAIN out.embeddings
                /\ out.embeddings[<<path, i - 1>>] =
                     (IF call.providers[i].raises
                      THEN call.providers[i].random
                      ELSE call.providers[i].response)

C11_SearchSurvives(call) ==
  LET results == Found(call)
  IN  /\ Len(results) = Min(call.top_k, Len(InScope(call)))
      /\ \A i \in DOMAIN results :
           results[i].similarity = Cos2(call.provider.random, embeddings[results[i].chunk_id])
      /\ \A i, j \in DOMAIN results : i < j => results[i].similarity >= results[j].similarity

C11_ProviderFailureRecovered ==
  /\ \A call \in Adds : ProviderFails(call) => C11_AddSurvives(call)
  /\ \A call \in SearchCalls : call.provider.raises => C11_SearchSurvives(call)

(* The provider raises for one of two chunks of an ingestion that returns true,
   and raises in a search that returns two chunks of different similarity. *)
C11_Witness ==
  /\ \E call \in Adds :
       /\ Len(call.providers) = 2
       /\ call.providers[1].raises
       /\ ~call.providers[2].raises
       /\ call.providers[1].random # 0
       /\ Added(call).ret = "true"
  /\ \E call \in SearchCalls :
       /\ call.provider.raises
       /\ call.provider.random # 0
       /\ Len(Found(call)) = 2
       /\ Found(call)[1].similarity > Found(call)[2].similarity

(* C12: search returns the empty list when the store holds no embeddings,
   when a file scope is given that does not resolve, and when the scope
   resolves to a path that owns no chunk. *)
C12_EmptyCase(call) ==
  \/ DOMAIN embeddings = {}
  \/ Scoped(call) /\ ~ScopeOf(call).ok
  \/ Scoped(call) /\ ScopeOf(call).ok /\ ChunksOf(documents, ScopeOf(call).path) = << >>

C12_SearchEmpty == \A call \in SearchCalls : C12_EmptyCase(call) => Found(call) = << >>

(* The store holds embedded chunks; one scope with top_k > 0 does not resolve
   and another resolves to a file that owns no chunk. *)
C12_Witness ==
  /\ DOMAIN embeddings # {}
  /\ \E call \in SearchCalls :
       call.top_k > 0 /\ Scoped(call) /\ ~ScopeOf(call).ok /\ Found(call) = << >>
  /\ \E call \in SearchCalls :
       /\ call.top_k > 0
       /\ Scoped(call)
       /\ ScopeOf(call).ok
       /\ ChunksOf(documents, ScopeOf(call).path) = << >>
       /\ Found(call) = << >>

(* C13: remove_document returns true if and only if, before the call, the
   store held a chunk, an embedding or a file-metadata entry owned by the
   resolved path. *)
C13_Owned(path) ==
  \/ ChunksOf(documents, path) # << >>
  \/ EmbeddingsOf(embeddings, path) # {}
  \/ Tracked(file_metadata, path)

C13_RemoveReturn ==
  \A call \in Removes : Removed(call).ret = "true" <=> C13_Owned(PathResolve(call.file_path))

(***************************************************************************)
(* The words of a text read off the text: the lower-cased maximal runs of  *)
(* characters that are not whitespace.                                     *)
(***************************************************************************)
IsWord(string, i, j) ==
  /\ i <= j
  /\ \A k \in i .. j : string[k] # " "
  /\ i = 1 \/ string[i - 1] = " "
  /\ j = Len(string) \/ string[j + 1] = " "

WordsOf(string) ==
  {SubSeq(LowerText(string), p[1], p[2]) :
     p \in {q \in (DOMAIN string) \X (DOMAIN string) : IsWord(string, q[1], q[2])}}

PositionIn(results, chunk_id) ==
  CHOOSE i \in DOMAIN results : results[i].chunk_id = chunk_id

(* The result lists rerank_results is given: what search returns, in its
   order and in the opposite order. *)
RerankInputs == UNION {{Found(call), Reverse(Found(call))} : call \in SearchCalls}

(* C14: rerank_results gives every result keyword_score = (distinct query
   words that are words of the content) / (distinct query words) and
   combined_score = 0.7 * similarity + 0.3 * keyword_score, and returns the
   same results with their fields as they were, as many as it was given,
   ordered by non-increasing combined_score, results of equal combined_score
   in their input order. *)
C14_Scores(results, query) ==
  LET out == Rerank(results, query)
      n == Cardinality(WordsOf(query))
      k(i) == Cardinality(WordsOf(query) \cap WordsOf(out[i].content))
  IN  /\ Len(out) = Len(results)
      /\ {out[i].chunk_id : i \in DOMAIN out} = {results[i].chunk_id : i \in DOMAIN results}
      /\ \A i \in DOMAIN out :
           LET given == results[PositionIn(results, out[i].chunk_id)]
           IN  \A field \in DOMAIN given : out[i][field] = given[field]
      /\ n > 0 =>
           \A i \in DOMAIN out :
             /\ out[i].keyword_score.num * n = k(i) * out[i].keyword_score.den
             /\ 20 * n * out[i].combined_score.num =
                  (7 * out[i].similarity * n + 6 * k(i)) * out[i].combined_score.den
      /\ \A i, j \in DOMAIN out :
           i < j =>
             /\ ~Less(out[i].combined_score, out[j].combined_score)
             /\ ~Less(out[j].combined_score, out[i].combined_score) =>
                  PositionIn(results, out[i].chunk_id) < PositionIn(results, out[j].chunk_id)

C14_Rerank ==
  \A results \in RerankInputs : \A query \in RerankQueries : C14_Scores(results, query)

(* Two results of equal similarity change places: the second has one of the
   two query words in its content, the first has none. *)
C14_Witness ==
  \E call \in SearchCalls, query \in RerankQueries :
    LET results == Found(call)
        out == Reranked(call, query)
    IN  /\ Len(results) = 2
        /\ results[1].similarity = results[2].similarity
        /\ out[1].chunk_id = results[2].chunk_id
        /\ out[1].keyword_score = Fraction(1, 2)
        /\ out[2].keyword_score = Fraction(0, 2)

(* C15: rerank_results with a query that has no word (empty or whitespace
   only) gives every result keyword_score 0 and returns the results of a
   search in the order search returned them, sorted by similarity. *)
C15_Order(results, query) ==
  LET out == Rerank(results, query)
  IN  /\ \A i \in DOMAIN out : out[i].keyword_score.num = 0
      /\ [i \in DOMAIN out |-> out[i].chunk_id] = [i \in DOMAIN results |-> results[i].chunk_id]
      /\ \A i, j \in DOMAIN out : i < j => out[i].similarity >= out[j].similarity

C15_EmptyQuery ==
  \A call \in SearchCalls :
    \A query \in RerankQueries : WordsOf(query) = {} => C15_Order(Found(call), query)

(* A whitespace-only query reranks two results of equal similarity. *)
C15_Witness ==
  \E call \in SearchCalls, query \in RerankQueries :
    /\ query # << >>
    /\ WordsOf(query) = {}
    /\ Len(Found(call)) = 2
    /\ Found(call)[1].similarity = Found(call)[2].similarity
    /\ Len(Reranked(call, query)) = 2

(* C16: for every text with len(text) <= chunk_size the chunker returns
   exactly one chunk, equal to the text character for character. *)
C16_ShortTextOneChunk == pc = "return" /\ Len(text) <= chunk_size => chunks = <<text>>

(* A text of exactly chunk_size characters that begins with a space and ends
   with a period is returned as it is. *)
C16_Witness ==
  /\ pc = "return"
  /\ Len(text) = chunk_size
  /\ chunk_size > 1
  /\ text[1] = " "
  /\ text[Len(text)] = "."
  /\ chunks = <<text>>

(* C17: for every text, every chunk the chunker returns is non-empty and is
   not whitespace-only. *)
C17_NoBlankChunk ==
  pc = "return" => \A i \in DOMAIN chunks : \E k \in DOMAIN chunks[i] : chunks[i][k] # " "

(***************************************************************************)
(* The characters of the text that two windows share.                      *)
(***************************************************************************)
InWindow(k, window) == window.start <= k /\ k < window.end

Shared(first, second) ==
  Cardinality({k \in 0 .. (Len(text) - 1) : InWindow(k, first) /\ InWindow(k, second)})

(* C18: for every text longer than chunk_size and every two consecutive
   windows neither of whose ends was moved back to a period, the second
   starts overlap characters before the end of the first and the two share
   at least overlap characters of the text. *)
C18_WindowsOverlap ==
  Len(text) > chunk_size =>
    \A i \in 1 .. (Len(windows) - 1) :
      ~windows[i].moved_back /\ ~windows[i + 1].moved_back =>
        /\ windows[i + 1].start = windows[i].end - overlap
        /\ Shared(windows[i], windows[i + 1]) >= overlap

(***************************************************************************)
(* What a call of the resolver is compared with: whether a path exists     *)
(* among the document files, and the places a name is looked for, in the   *)
(* order document directory, docs, documents.                              *)
(***************************************************************************)
Exists(files, path) == \E p \in DOMAIN files : files[p].exists /\ p = PathResolve(path)

PlacesOf(file_name) ==
  <<document_dir \o <<file_name>>, document_dir \o <<"docs", file_name>>,
    document_dir \o <<"documents", file_name>>>>

Canonical(path) ==
  /\ path # << >>
  /\ path[1] = document_dir[1]
  /\ \A i \in DOMAIN path : path[i] \notin {".", ".."}

(* C19: resolution fails exactly when neither path nor name is given, or the
   path is given and does not exist, or only the name is given and it is in
   none of the three places; when both are given the result is that of the
   path alone; a successful result is an existing canonical path. *)
C19_Resolved(call) ==
  LET file_path == call.file_path
      file_name == call.file_name
      places == PlacesOf(file_name)
      fails == \/ file_path = NoPath /\ file_name = NoName
               \/ file_path # NoPath /\ ~Exists(call.files, file_path)
               \/ /\ file_path = NoPath
                  /\ file_name # NoName
                  /\ \A i \in DOMAIN places : ~Exists(call.files, places[i])
  IN  /\ ~call.result.ok <=> fails
      /\ file_path # NoPath => call.result = _resolve_file_path(call.files, file_path, NoName)
      /\ call.result.ok => Exists(call.files, call.result.path) /\ Canonical(call.result.path)
      /\ call.result.ok /\ file_path # NoPath => call.result.path = PathResolve(file_path)
      /\ call.result.ok /\ file_path = NoPath =>
           \E i \in DOMAIN places :
             /\ call.result.path = places[i]
             /\ \A j \in 1 .. (i - 1) : ~Exists(call.files, places[j])

C19_Resolution == resolution.called => C19_Resolved(resolution)

(* Both are given, the path does not exist and the name would be found in the
   documents subdirectory only: the call fails. *)
C19_Witness ==
  /\ resolution.called
  /\ resolution.file_path = PathAlias
  /\ resolution.file_name = "a.txt"
  /\ ~resolution.files[PathRoot].exists
  /\ ~resolution.files[PathDocs].exists
  /\ resolution.files[PathDocuments].exists
  /\ ~resolution.result.ok
  /\ _resolve_file_path(resolution.files, NoPath, "a.txt") = Resolved(PathDocuments)

(* C20: an add_document call with force_reprocess = false whose read of the
   file for the fingerprint fails is not treated as an unchanged-file skip,
   whatever fingerprint is stored for the path: when its read of the content
   and its stat succeed, it reprocesses the file and returns true. *)
C20_NoSilentSkip ==
  \A call \in Adds :
    (/\ Added(call).ret # "raise"
     /\ ~call.force_reprocess
     /\ ~call.hash_ok
     /\ call.read_ok
     /\ call.stat_ok) =>
      /\ ~SkipUnchanged(file_metadata, Added(call).path, Added(call).hash, FALSE)
      /\ Added(call).ret = "true"

(***************************************************************************)
(* The same call with no write of its flush raising.                       *)
(***************************************************************************)
Unfailing(call) == [call EXCEPT !.fail = 0]

Diverged == _load_data(disk) # [embeddings |-> embeddings, documents |-> documents,
                                file_metadata |-> file_metadata]

(* C21: a write that raises during the flush is swallowed: add_document and
   remove_document return true and leave the maps as the same call with an
   unfailing flush does; and when the artifacts disagree with the maps, the
   next call whose flush raises nothing leaves artifacts from which the maps
   in memory are loaded. *)
C21_Swallowed(out, unfailing) ==
  /\ out.ret = unfailing.ret
  /\ out.documents = unfailing.documents
  /\ out.embeddings = unfailing.embeddings
  /\ out.file_metadata = unfailing.file_metadata

C21_FlushFailureSwallowed ==
  /\ \A call \in Adds :
       /\ call.fail # 0 =>
            C21_Swallowed(Added(call),
                          AddDocument(documents, embeddings, file_metadata, disk, fs,
                                      Unfailing(call)))
       /\ (/\ Diverged
           /\ Added(call).ret = "true"
           /\ ~SaveRaises(Added(call).embeddings, call.fail)) =>
            Restarted(Added(call)) = InMemory(Added(call))
  /\ \A call \in Removes :
       /\ call.fail # 0 =>
            C21_Swallowed(Removed(call),
                          RemoveDocument(documents, embeddings, file_metadata, disk,
                                         Unfailing(call)))
       /\ (/\ Diverged
           /\ Removed(call).ret = "true"
           /\ ~SaveRaises(Removed(call).embeddings, call.fail)) =>
            Restarted(Removed(call)) = InMemory(Removed(call))

(* C22: the chunker terminates: every iteration of the loop leaves the
   window start strictly greater than it found it, also when the end of the
   window was moved back to a period, so that the loop runs at most
   len(text) times. *)
C22_StartIncreases ==
  /\ \A i \in 1 .. Len(windows) : windows[i].end - overlap > windows[i].start
  /\ Len(windows) <= Len(text)

(* C23: when the calls of the threads so far were add_document and search
   only, and every one of them has completed, documents and embeddings have
   the same keys and the chunk_count of every tracked path is the number of
   chunks of documents that the path owns. *)
AllCompleted == \A t \in Threads : threads[t].op = "idle"

NothingRemoved == \A t \in Threads : threads[t].removes = 0

C23_SettledAfterAdds ==
  AllCompleted /\ NothingRemoved =>
    /\ DictKeys(documents) = DOMAIN embeddings
    /\ \A path \in DictKeys(file_metadata) :
         DictGet(file_metadata, path).chunk_count = Cardinality(OwnedIds(documents, path))

(* C24: a search never ends in the KeyError of a chunk identifier that a
   concurrent remove_document or add_document deleted after the search had
   selected it: it returns a list. *)
C24_SearchReturnsList == \A t \in Threads : threads[t].ret # "KeyError"

(* C25: for every tracked path the chunk_count of file_metadata is the
   number of chunks of documents that the path owns, so that the
   total_chunks of get_document_stats is the sum of the chunk_count values
   of list_files. *)
RECURSIVE SumChunkCounts(_)
SumChunkCounts(files) ==
  IF files = << >> THEN 0 ELSE files[1].chunk_count + SumChunkCounts(Tail(files))

C25_ChunkCounts ==
  /\ \A path \in DictKeys(file_metadata) :
       DictGet(file_metadata, path).chunk_count = Cardinality(OwnedIds(documents, path))
  /\ Stats.total_chunks = SumChunkCounts(Listed)

(* C26: search, rerank_results, list_files and get_document_stats leave
   documents, embeddings, file_metadata and the artifacts as they are: the
   assignments of search and rerank_results to their results change no
   stored chunk, and no stored chunk ever has a field other than file_path,
   chunk_index, content and length. *)
ChunkFields == {"file_path", "chunk_index", "content", "length"}

C26_ReadOnly ==
  /\ \A n \in DOMAIN documents : DOMAIN documents[n].val = ChunkFields
  /\ \A call \in SearchCalls :
       /\ DocumentsAfterSearch(documents, Found(call)) = documents
       /\ \A query \in RerankQueries :
            DocumentsAfterRerank(documents, Found(call), query) = documents
  /\ disk.documents.state = "ok" =>
       \A n \in DOMAIN disk.documents.data : DOMAIN disk.documents.data[n].val = ChunkFields

C26_Witness ==
  /\ Len(documents) >= 2
  /\ \E call \in SearchCalls, query \in RerankQueries :
       /\ Len(Found(call)) = MaxTopK
       /\ \E n \in DOMAIN Reranked(call, query) :
            Reranked(call, query)[n].keyword_score.num > 0

====
